---- MODULE Spec2Model ----
(***************************************************************************)
(* Model of WebScraper (src/src/scraper.py): the index / fetch / resume    *)
(* workflow.  One WebScraper object, its persisted files (source_dir +     *)
(* "index", source_dir + "temp"), and the three public operations          *)
(* fetch_indexes, fetch_all_cards and fetch_all_cards_from_faction, each   *)
(* broken into the steps at which the browser can fail or the user can     *)
(* interrupt.                                                              *)
(*                                                                         *)
(* A Python dict is a sequence of [k, v] records with distinct keys, in    *)
(* insertion order.  A file is [exists, data].                             *)
(***************************************************************************)
EXTENDS Naturals, Sequences, FiniteSets

\* ---------------------------------------------------------------- bounds
MaxLinks == 2      \* links found on one page (menu or tooltip)
MaxRuns == 2       \* operations started on the object

Factions == {"f1", "f2"}
Units == {"u1", "u2"}
Datasheets == "datasheets.html"

\* ------------------------------------------------------- python builtins
SeqsUpTo(S, n) == UNION {[1..m -> S] : m \in 0..n}

Range(s) == {s[i] : i \in 1..Len(s)}

Count(s, x) == Cardinality({i \in 1..Len(s) : s[i] = x})

IsSuffix(s, t) ==
    /\ Len(s) <= Len(t)
    /\ s = SubSeq(t, Len(t) - Len(s) + 1, Len(t))

\* [name for name in names if name != "datasheets.html"]
RECURSIVE FilterNames(_)
FilterNames(names) ==
    IF names = <<>> THEN <<>>
    ELSE IF Head(names) = Datasheets THEN FilterNames(Tail(names))
    ELSE <<Head(names)>> \o FilterNames(Tail(names))

\* href.split("/")[-1]: an href is the sequence of its "/"-separated parts
LastSegment(href) == href[Len(href)]

get_names_from_html(hrefs) ==
    FilterNames([i \in 1..Len(hrefs) |-> LastSegment(hrefs[i])])

DictKeys(d) == [i \in 1..Len(d) |-> d[i].k]

DictHas(d, key) == \E i \in 1..Len(d) : d[i].k = key

DictGet(d, key) == d[CHOOSE i \in 1..Len(d) : d[i].k = key].v

\* d[key] = val: an existing key keeps its place, a new key goes last
DictSet(d, key, val) ==
    IF DictHas(d, key)
    THEN [i \in 1..Len(d) |-> IF d[i].k = key THEN [k |-> key, v |-> val] ELSE d[i]]
    ELSE Append(d, [k |-> key, v |-> val])

\* list.remove(x): drops the first occurrence of x
ListRemove(s, x) ==
    LET i == CHOOSE j \in 1..Len(s) : s[j] = x /\ \A l \in 1..(j - 1) : s[l] # x
    IN  SubSeq(s, 1, i - 1) \o SubSeq(s, i + 1, Len(s))

\* units_queue.pop(0): the unit taken and what is left of the local queue
PopLast(q) == [unit |-> q[Len(q)], rest |-> SubSeq(q, 1, Len(q) - 1)]

PopFirst(q) == [unit |-> Head(q), rest |-> Tail(q)]

\* ------------------------------------------------------------------ Utils
NoFile == [exists |-> FALSE, data |-> <<>>]

\* Utils.init_dictionary_with_keys(keys): every key mapped to an empty list
RECURSIVE init_dictionary_with_keys(_)
init_dictionary_with_keys(keys) ==
    IF keys = <<>> THEN <<>>
    ELSE DictSet(init_dictionary_with_keys(SubSeq(keys, 1, Len(keys) - 1)),
                 keys[Len(keys)], <<>>)

\* Utils.save_dict_to_json(d, path): path is source_dir + name
save_dict_to_json(fs, d, name) == [fs EXCEPT ![name] = [exists |-> TRUE, data |-> d]]

\* Utils.load_dictionary_if_exists(source_dir): the resume snapshot when there
\* is one, else the Index, else None (exists = FALSE)
load_dictionary_if_exists(fs) ==
    IF fs["temp"].exists THEN fs["temp"] ELSE fs["index"]

\* ------------------------------------------------------------------ state
VARIABLES
    files,              \* [{"index", "temp"} -> [exists, data]]
    driver,             \* self.driver: "none" | "open" | "closed"
    factions_names,     \* self.factions_names
    factions_dict,      \* self.factions_dict
    op,                 \* the operation running, "none" between operations
    pc,                 \* its position
    arg,                \* fetch_all_cards_from_faction's faction
    cards_to_fetch,     \* the work queue of the running (or last) card run
    fidx,               \* position of the for loops over factions
    units_queue,        \* fetch_all_cards_from_faction_logic's local copy
    ret,                \* what the last operation returned: 0 or 1
    lastop,             \* the operation that returned it, "none" before any
    runs,               \* operations started
    \* history, read by the properties only
    loaded,             \* "unset" | "none" | "dict": what this card run loaded
    loaded_dict,        \* the dictionary it loaded
    attempts,           \* fetch_card_from_unit calls of this run, in order
    captured_prev,      \* <<faction, unit>> done by earlier fetch_all_cards runs
    enum_names,         \* names fetch_factions_names enumerated in this run
    enum_dict,          \* what fetch_units_names_from_faction enumerated in this run
    temp_saved          \* this run wrote the resume snapshot

vars == <<files, driver, factions_names, factions_dict, op, pc,
          arg, cards_to_fetch, fidx, units_queue, ret, lastop, runs, loaded,
          loaded_dict, attempts, captured_prev, enum_names, enum_dict, temp_saved>>

objvars == <<factions_names, factions_dict>>
cardvars == <<arg, cards_to_fetch, units_queue, loaded, loaded_dict, attempts, temp_saved>>

\* the object as constructed (lines 18-33), nothing run yet, over a source
\* directory holding these files
Constructed(fs) ==
    /\ files = fs
    /\ driver = "none"
    /\ factions_names = <<>>
    /\ factions_dict = <<>>
    /\ op = "none"
    /\ pc = "idle"
    /\ arg = "f1"
    /\ cards_to_fetch = <<>>
    /\ fidx = 1
    /\ units_queue = <<>>
    /\ ret = 0
    /\ lastop = "none"
    /\ runs = 0
    /\ loaded = "unset"
    /\ loaded_dict = <<>>
    /\ attempts = <<>>
    /\ captured_prev = {}
    /\ enum_names = <<>>
    /\ enum_dict = <<>>
    /\ temp_saved = FALSE

\* an empty source directory
Init == Constructed([n \in {"index", "temp"} |-> NoFile])

\* the dictionaries fetch_indexes can have persisted: distinct factions, each
\* with up to MaxLinks unit names, repeats included
RECURSIVE DictsOver(_)
DictsOver(keys) ==
    IF keys = <<>> THEN {<<>>}
    ELSE {Append(d, [k |-> keys[Len(keys)], v |-> us]) :
            d \in DictsOver(SubSeq(keys, 1, Len(keys) - 1)),
            us \in SeqsUpTo(Units, MaxLinks)}

\* the key orders taken: none, one faction, two factions in the order the
\* menu gave them (the other orders are these with the factions renamed)
IndexKeyOrders == {<<>>, <<"f1">>, <<"f2", "f1">>}

IndexDicts == UNION {DictsOver(keys) : keys \in IndexKeyOrders}

\* a source directory where fetch_indexes has or has not been run before
InitCards ==
    \E ix \in {NoFile} \cup {[exists |-> TRUE, data |-> d] : d \in IndexDicts} :
        Constructed([n \in {"index", "temp"} |-> IF n = "index" THEN ix ELSE NoFile])

\* ---------------------------------------------------- session (lines 98-139)
\* init_session: Browser(...) raises before self.driver is assigned
\* ("browser_error"); or a session is opened and then everything goes well
\* ("ok": ensure_dirs_exist, install_ublock and remove_cookies return 0 or 1,
\* which is dropped), or remove_cookies' driver.get raises ("nav_error"), or
\* the user interrupts ("interrupt")
InitOutcomes == {"ok", "browser_error", "nav_error", "interrupt"}

InitSessionDriver(o, drv) == IF o = "browser_error" THEN drv ELSE "open"

InitRaises(o) == o \in {"browser_error", "nav_error", "interrupt"}

\* close_session: driver.quit(), any failure swallowed
close_session(drv) == IF drv = "open" THEN "closed" ELSE drv

\* an operation returns r
Return(name, r) ==
    /\ op' = "none"
    /\ pc' = "idle"
    /\ ret' = r
    /\ lastop' = name

\* ------------------------------------------- fetch_indexes (lines 265-292)
MenuHrefs == {<<"factions", f>> : f \in Factions} \cup {<<"the-rules", Datasheets>>}

UnitHrefs(f) == {<<"factions", f, n>> : n \in Units \cup {Datasheets}}

\* try: self.init_session() ... except: self.close_session(); return 1
FetchIndexesInit ==
    /\ pc = "idle"
    /\ runs < MaxRuns
    /\ \E o \in InitOutcomes :
        /\ IF InitRaises(o)
           THEN /\ driver' = close_session(InitSessionDriver(o, driver))
                /\ Return("fetch_indexes", 1)
           ELSE /\ driver' = InitSessionDriver(o, driver)
                /\ op' = "fetch_indexes"
                /\ pc' = "fi_names"
                /\ UNCHANGED <<ret, lastop>>
    /\ runs' = runs + 1
    /\ enum_names' = <<>>
    /\ enum_dict' = <<>>
    /\ UNCHANGED <<files, factions_names, factions_dict, fidx, captured_prev>>
    /\ UNCHANGED cardvars

\* self.fetch_factions_names(), its return value dropped, then
\* self.factions_dict = Utils.init_dictionary_with_keys(self.factions_names)
FetchFactionsNames ==
    /\ op = "fetch_indexes"
    /\ pc = "fi_names"
    /\ \/ \E hrefs \in SeqsUpTo(MenuHrefs, MaxLinks) :
            /\ factions_names' = get_names_from_html(hrefs)
            /\ enum_names' = get_names_from_html(hrefs)
       \/ UNCHANGED <<factions_names, enum_names>>      \* except Exception: return 1
    /\ factions_dict' = init_dictionary_with_keys(factions_names')
    /\ pc' = "fi_units"
    /\ fidx' = 1
    /\ UNCHANGED <<files, driver, op, ret, lastop, runs,
                   captured_prev, enum_dict>>
    /\ UNCHANGED cardvars

\* one turn of: for faction_name in self.factions_names:
\*                  self.fetch_units_names_from_faction(faction_name)
FetchUnitsNames ==
    /\ op = "fetch_indexes"
    /\ pc = "fi_units"
    /\ fidx <= Len(factions_names)
    /\ LET faction_name == factions_names[fidx] IN
       \/ \E hrefs \in SeqsUpTo(UnitHrefs(faction_name), MaxLinks) :
            /\ factions_dict' =
                 DictSet(factions_dict, faction_name, get_names_from_html(hrefs))
            /\ enum_dict' = DictSet(enum_dict, faction_name, get_names_from_html(hrefs))
       \/ UNCHANGED <<factions_dict, enum_dict>>         \* except Exception: return 1
    /\ fidx' = fidx + 1
    /\ UNCHANGED <<files, driver, factions_names, op, pc, ret,
                   lastop, runs, captured_prev, enum_names>>
    /\ UNCHANGED cardvars

\* Utils.save_dict_to_json(self.factions_dict, self.source_dir + "index");
\* self.close_session(); return 0
FetchIndexesSave ==
    /\ op = "fetch_indexes"
    /\ pc = "fi_units"
    /\ fidx > Len(factions_names)
    /\ files' = save_dict_to_json(files, factions_dict, "index")
    /\ driver' = close_session(driver)
    /\ Return("fetch_indexes", 0)
    /\ fidx' = 1
    /\ captured_prev' = {}
    /\ UNCHANGED <<runs, enum_names, enum_dict>>
    /\ UNCHANGED objvars
    /\ UNCHANGED cardvars

\* except KeyboardInterrupt: self.close_session(); return 1
FetchIndexesInterrupt ==
    /\ op = "fetch_indexes"
    /\ pc \in {"fi_names", "fi_units"}
    /\ driver' = close_session(driver)
    /\ Return("fetch_indexes", 1)
    /\ fidx' = 1
    /\ UNCHANGED <<files, runs, captured_prev, enum_names, enum_dict>>
    /\ UNCHANGED objvars
    /\ UNCHANGED cardvars

\* ------------------------------------------------ card fetching, shared
CardOps == {"fetch_all_cards", "fetch_all_cards_from_faction"}

\* the <<faction, unit>> pairs these calls captured and struck off the queue
Captured(att) ==
    {<<att[i].faction, att[i].unit>> :
        i \in {j \in 1..Len(att) : att[j].outcome = "ok"}}

\* if cards_to_fetch is None: ... return 1
DictionaryFoundAlways(l) == TRUE

DictionaryFound(l) == l.exists

\* cards_to_fetch = {faction: cards_to_fetch[faction]}
RestrictToFaction(d, faction) == <<[k |-> faction, v |-> DictGet(d, faction)]>>

\* Utils.save_dict_to_json(cards_to_fetch, self.source_dir + "temp")
ResumePathIndex == "index"

ResumePath == "temp"

\* the faction fetch_all_cards_from_faction_logic is called with: the
\* argument, or the key the for loop of fetch_all_cards_logic is at
CurFaction ==
    IF op = "fetch_all_cards_from_faction" THEN arg ELSE cards_to_fetch[fidx].k

\* calls of fetch_all_cards_from_faction_logic the operation makes
LogicCalls ==
    IF op = "fetch_all_cards_from_faction" THEN 1 ELSE Len(cards_to_fetch)

\* self.fetch_card_from_unit(faction, unit); cards_to_fetch[faction].remove(unit)
\* the remove is reached only when the capture did not raise
RemoveAlways(d, faction, unit, outcome) ==
    DictSet(d, faction, ListRemove(DictGet(d, faction), unit))

RemoveCaptured(d, faction, unit, outcome) ==
    IF outcome = "ok"
    THEN DictSet(d, faction, ListRemove(DictGet(d, faction), unit))
    ELSE d

\* except Exception: return 1 -- the caller drops the value and goes on
\* with the next call, if any
AbortRun(i, n) == n + 1

AfterCaptureError(i, n) == i + 1

\* units_queue = cards_to_fetch[faction][:]
EnterFaction ==
    /\ op \in CardOps
    /\ pc = "faction"
    /\ fidx <= LogicCalls
    /\ units_queue' = DictGet(cards_to_fetch, CurFaction)
    /\ pc' = "units"
    /\ UNCHANGED <<files, driver, op, arg, cards_to_fetch, fidx, ret, lastop, runs,
                   loaded, loaded_dict, attempts, captured_prev, temp_saved,
                   enum_names, enum_dict>>
    /\ UNCHANGED objvars

\* unit = units_queue.pop(0); fetch_card_from_unit succeeds; remove(unit)
FetchCardOk ==
    /\ op \in CardOps
    /\ pc = "units"
    /\ units_queue # <<>>
    /\ LET p == PopFirst(units_queue) IN
        /\ units_queue' = p.rest
        /\ attempts' = Append(attempts,
                          [faction |-> CurFaction, unit |-> p.unit, outcome |-> "ok"])
        /\ cards_to_fetch' = RemoveCaptured(cards_to_fetch, CurFaction, p.unit, "ok")
    /\ UNCHANGED <<files, driver, op, pc, arg, fidx, ret, lastop, runs, loaded,
                   loaded_dict, captured_prev, temp_saved, enum_names, enum_dict>>
    /\ UNCHANGED objvars

\* fetch_card_from_unit raises an Exception: the while loop is left through
\* except Exception: return 1
FetchCardError ==
    /\ op \in CardOps
    /\ pc = "units"
    /\ units_queue # <<>>
    /\ LET p == PopFirst(units_queue) IN
        /\ units_queue' = p.rest
        /\ attempts' = Append(attempts,
                          [faction |-> CurFaction, unit |-> p.unit, outcome |-> "error"])
        /\ cards_to_fetch' = RemoveCaptured(cards_to_fetch, CurFaction, p.unit, "error")
    /\ fidx' = AfterCaptureError(fidx, LogicCalls)
    /\ pc' = "faction"
    /\ UNCHANGED <<files, driver, op, arg, ret, lastop, runs, loaded, loaded_dict,
                   captured_prev, temp_saved, enum_names, enum_dict>>
    /\ UNCHANGED objvars

\* KeyboardInterrupt in fetch_card_from_unit, before the screenshot
\* ("interrupt") or between the screenshot and the remove ("interrupt_after"):
\* not an Exception, so it reaches the operation's except KeyboardInterrupt
FetchCardInterrupt ==
    /\ op \in CardOps
    /\ pc = "units"
    /\ units_queue # <<>>
    /\ \E o \in {"interrupt", "interrupt_after"} :
        LET p == PopFirst(units_queue)
            att == Append(attempts,
                          [faction |-> CurFaction, unit |-> p.unit, outcome |-> o])
        IN  /\ attempts' = att
            /\ cards_to_fetch' = RemoveCaptured(cards_to_fetch, CurFaction, p.unit, o)
            /\ captured_prev' = IF op = "fetch_all_cards"
                                THEN captured_prev \cup Captured(att)
                                ELSE captured_prev
    /\ driver' = close_session(driver)
    /\ IF op = "fetch_all_cards"
       THEN /\ files' = save_dict_to_json(files, cards_to_fetch', ResumePath)
            /\ temp_saved' = TRUE
       ELSE UNCHANGED <<files, temp_saved>>
    /\ Return(op, 1)
    /\ units_queue' = <<>>
    /\ fidx' = 1
    /\ UNCHANGED <<arg, runs, loaded, loaded_dict, enum_names, enum_dict>>
    /\ UNCHANGED objvars

\* while units_queue: is false; return 0
FactionDone ==
    /\ op \in CardOps
    /\ pc = "units"
    /\ units_queue = <<>>
    /\ fidx' = fidx + 1
    /\ pc' = "faction"
    /\ UNCHANGED <<files, driver, op, arg, cards_to_fetch, units_queue, ret, lastop,
                   runs, loaded, loaded_dict, attempts, captured_prev, temp_saved,
                   enum_names, enum_dict>>
    /\ UNCHANGED objvars

\* self.close_session(); return 0 -- the same in both operations, whatever
\* fetch_all_cards_from_faction_logic returned
FetchCardsFinish ==
    /\ op \in CardOps
    /\ pc = "faction"
    /\ fidx > LogicCalls
    /\ driver' = close_session(driver)
    /\ Return(op, 0)
    /\ captured_prev' = IF op = "fetch_all_cards"
                        THEN captured_prev \cup Captured(attempts)
                        ELSE captured_prev
    /\ fidx' = 1
    /\ UNCHANGED <<files, runs, enum_names, enum_dict>>
    /\ UNCHANGED objvars
    /\ UNCHANGED cardvars

\* ----------------------------------------- fetch_all_cards (lines 353-384)
\* cards_to_fetch is None: return 1, before any session is opened
FetchAllCardsNoDict ==
    /\ pc = "idle"
    /\ runs < MaxRuns
    /\ ~DictionaryFound(load_dictionary_if_exists(files))
    /\ Return("fetch_all_cards", 1)
    /\ runs' = runs + 1
    /\ loaded' = "none"
    /\ loaded_dict' = <<>>
    /\ cards_to_fetch' = <<>>
    /\ attempts' = <<>>
    /\ temp_saved' = FALSE
    /\ UNCHANGED <<files, driver, arg, fidx, units_queue, captured_prev, enum_names,
                   enum_dict>>
    /\ UNCHANGED objvars

\* the dictionary is loaded, then try: self.init_session()
FetchAllCardsInit ==
    /\ pc = "idle"
    /\ runs < MaxRuns
    /\ DictionaryFound(load_dictionary_if_exists(files))
    /\ LET d == load_dictionary_if_exists(files).data IN
        /\ cards_to_fetch' = d
        /\ loaded_dict' = d
        /\ \E o \in InitOutcomes :
            /\ IF InitRaises(o)
               THEN /\ driver' = close_session(InitSessionDriver(o, driver))
                    /\ files' = save_dict_to_json(files, d, ResumePath)
                    /\ temp_saved' = TRUE
                    /\ Return("fetch_all_cards", 1)
               ELSE /\ driver' = InitSessionDriver(o, driver)
                    /\ op' = "fetch_all_cards"
                    /\ pc' = "faction"
                    /\ temp_saved' = FALSE
                    /\ UNCHANGED <<files, ret, lastop>>
    /\ runs' = runs + 1
    /\ loaded' = "dict"
    /\ attempts' = <<>>
    /\ fidx' = 1
    /\ UNCHANGED <<factions_names, factions_dict, arg, units_queue, captured_prev,
                   enum_names, enum_dict>>

\* ---------------------------- fetch_all_cards_from_faction (lines 310-343)
\* try: self.init_session() raises: close_session(); return 1
FetchFromFactionInitFails ==
    /\ pc = "idle"
    /\ runs < MaxRuns
    /\ \E faction \in Factions, o \in InitOutcomes :
        /\ InitRaises(o)
        /\ arg' = faction
        /\ driver' = close_session(InitSessionDriver(o, driver))
    /\ Return("fetch_all_cards_from_faction", 1)
    /\ runs' = runs + 1
    /\ loaded' = "unset"
    /\ loaded_dict' = <<>>
    /\ cards_to_fetch' = <<>>
    /\ attempts' = <<>>
    /\ temp_saved' = FALSE
    /\ UNCHANGED <<files, factions_names, factions_dict, fidx, units_queue,
                   captured_prev, enum_names, enum_dict>>

\* init_session succeeds, then the dictionary is loaded: return 1 when there
\* is none or when it has no such faction, else go on with that faction alone
FetchFromFactionInit ==
    /\ pc = "idle"
    /\ runs < MaxRuns
    /\ \E faction \in Factions, o \in InitOutcomes :
        /\ ~InitRaises(o)
        /\ arg' = faction
        /\ driver' = InitSessionDriver(o, driver)
        /\ LET l == load_dictionary_if_exists(files) IN
           IF ~DictionaryFound(l)
           THEN /\ loaded' = "none"
                /\ loaded_dict' = <<>>
                /\ cards_to_fetch' = <<>>
                /\ Return("fetch_all_cards_from_faction", 1)
           ELSE IF ~DictHas(l.data, faction)
           THEN /\ loaded' = "dict"
                /\ loaded_dict' = l.data
                /\ cards_to_fetch' = l.data
                /\ Return("fetch_all_cards_from_faction", 1)
           ELSE /\ loaded' = "dict"
                /\ loaded_dict' = l.data
                /\ cards_to_fetch' = RestrictToFaction(l.data, faction)
                /\ op' = "fetch_all_cards_from_faction"
                /\ pc' = "faction"
                /\ UNCHANGED <<ret, lastop>>
    /\ runs' = runs + 1
    /\ attempts' = <<>>
    /\ temp_saved' = FALSE
    /\ fidx' = 1
    /\ UNCHANGED <<files, factions_names, factions_dict, units_queue, captured_prev,
                   enum_names, enum_dict>>

\* ---------------------------------------------------------- specification
NextIndex ==
    \/ FetchIndexesInit
    \/ FetchFactionsNames
    \/ FetchUnitsNames
    \/ FetchIndexesSave
    \/ FetchIndexesInterrupt

NextCards ==
    \/ FetchAllCardsNoDict
    \/ FetchAllCardsInit
    \/ FetchFromFactionInitFails
    \/ FetchFromFactionInit
    \/ EnterFaction
    \/ FetchCardOk
    \/ FetchCardError
    \/ FetchCardInterrupt
    \/ FactionDone
    \/ FetchCardsFinish

Next == NextIndex \/ NextCards

\* every operation, from an empty source directory
Spec == Init /\ [][Next]_vars

\* fetch_indexes alone, run again and again on one object
SpecIndex == Init /\ [][NextIndex]_vars

\* card fetching alone, over any persisted Index
SpecCards == InitCards /\ [][NextCards]_vars

\* ------------------------------------------------------------- properties
\* the operation running, or the one that returned last
CurOp == IF pc = "idle" THEN lastop ELSE op

\* calls of fetch_card_from_unit(f, u) of this run that wrote the screenshot
Completed(f, u) ==
    Cardinality({i \in 1..Len(attempts) :
        /\ attempts[i].faction = f
        /\ attempts[i].unit = u
        /\ attempts[i].outcome \in {"ok", "interrupt_after"}})

\* calls of this run for faction f among the first i calls
CallsFor(f, i) == Cardinality({j \in 1..i : attempts[j].faction = f})

\* calls of this run for faction f that were followed by the remove
Removed(f) ==
    Cardinality({j \in 1..Len(attempts) :
        attempts[j].faction = f /\ attempts[j].outcome = "ok"})

\* some capture of this run raised or was interrupted
CutShort == \E i \in 1..Len(attempts) : attempts[i].outcome # "ok"

\* C1: in a card run, for every category and item name, the occurrences
\* removed from the work queue never outnumber the captures of that item
\* that completed in this run: a removal needs a completed capture, and an
\* item whose capture raised or was never attempted is still queued, also
\* when the operation has returned.
C1_RemovedOnlyAfterCapture ==
    CurOp \in CardOps =>
        \A i \in 1..Len(cards_to_fetch) : \A u \in Units :
            LET f == cards_to_fetch[i].k IN
            Count(DictGet(loaded_dict, f), u)
                <= Count(cards_to_fetch[i].v, u) + Completed(f, u)

C1_Witness ==
    /\ pc = "idle"
    /\ lastop = "fetch_all_cards"
    /\ \E i, j \in 1..Len(attempts) :
        /\ attempts[i].outcome = "ok"
        /\ attempts[j].outcome = "error"
        /\ Count(DictGet(cards_to_fetch, attempts[i].faction), attempts[i].unit) = 0
        /\ Count(DictGet(cards_to_fetch, attempts[j].faction), attempts[j].unit) > 0
        /\ Len(DictGet(cards_to_fetch, attempts[j].faction)) > 1

\* C2: when fetch_all_cards has returned after loading a dictionary, and the
\* run was cut short (it returned 1, or a capture raised or was interrupted),
\* the resume snapshot was written in this run and holds the work queue as it
\* stood.
C2_SnapshotOnError ==
    (/\ pc = "idle"
     /\ lastop = "fetch_all_cards"
     /\ loaded = "dict"
     /\ (ret = 1 \/ CutShort))
        => /\ temp_saved
           /\ files["temp"] = [exists |-> TRUE, data |-> cards_to_fetch]

\* C3: while fetch_all_cards runs, no item it passes to fetch_card_from_unit
\* was captured by an earlier fetch_all_cards run over the same Index.
C3_NoRefetch ==
    op = "fetch_all_cards" =>
        \A i \in 1..Len(attempts) :
            <<attempts[i].faction, attempts[i].unit>> \notin captured_prev

\* C4: when fetch_all_cards has returned, 0 means every category of the work
\* queue is empty, and a failed or interrupted capture means 1.
C4_ReturnCode ==
    (pc = "idle" /\ lastop = "fetch_all_cards") =>
        /\ ret = 0 => /\ loaded = "dict"
                      /\ \A i \in 1..Len(cards_to_fetch) : cards_to_fetch[i].v = <<>>
        /\ CutShort => ret = 1

\* C5: when fetch_indexes has returned 0, the persisted Index has exactly
\* the category names enumerated in this run as keys, each mapped to the
\* item names enumerated for it in this run (none when its enumeration
\* failed), in enumeration order.
C5_IndexIsThisRun ==
    (pc = "idle" /\ lastop = "fetch_indexes" /\ ret = 0) =>
        LET ix == files["index"] IN
        /\ ix.exists
        /\ Range(DictKeys(ix.data)) = Range(enum_names)
        /\ \A i \in 1..Len(ix.data) :
            ix.data[i].v = IF DictHas(enum_dict, ix.data[i].k)
                           THEN DictGet(enum_dict, ix.data[i].k)
                           ELSE <<>>

\* C6: no step of fetch_all_cards or fetch_all_cards_from_faction changes
\* the persisted Index.
C6_IndexUntouched == [][files'["index"] = files["index"]]_vars

C6_Witness ==
    /\ pc = "idle"
    /\ lastop = "fetch_all_cards"
    /\ temp_saved
    /\ files["index"].exists
    /\ files["temp"].exists
    /\ files["temp"].data # files["index"].data
    /\ \E i \in 1..Len(attempts) : attempts[i].outcome = "ok"

\* C7: a card operation that has returned with no persisted dictionary to
\* load returned 1 and captured nothing; fetch_all_cards_from_faction with a
\* faction that is no key of the loaded dictionary returned 1 and captured
\* nothing; and fetch_all_cards_from_faction only ever calls
\* fetch_card_from_unit for its own faction.
C7_NeedsDictionary ==
    /\ (/\ pc = "idle"
        /\ lastop \in CardOps
        /\ ~load_dictionary_if_exists(files).exists)
            => (ret = 1 /\ attempts = <<>>)
    /\ (/\ pc = "idle"
        /\ lastop = "fetch_all_cards_from_faction"
        /\ loaded = "dict"
        /\ ~DictHas(loaded_dict, arg))
            => (ret = 1 /\ attempts = <<>>)
    /\ CurOp = "fetch_all_cards_from_faction" =>
            \A i \in 1..Len(attempts) : attempts[i].faction = arg

C7_Witness ==
    /\ pc = "idle"
    /\ lastop = "fetch_all_cards_from_faction"
    /\ ~load_dictionary_if_exists(files).exists
    /\ driver = "open"
    /\ ret = 1

\* the category at position p of the work queue has been gone through: it is
\* empty, or a capture raised for one of its items
Processed(p) ==
    \/ cards_to_fetch[p].v = <<>>
    \/ \E i \in 1..Len(attempts) :
        attempts[i].faction = cards_to_fetch[p].k /\ attempts[i].outcome = "error"

\* C8: in fetch_all_cards, once a capture raised for an item of a category,
\* no later call is for that category and the category keeps everything from
\* that item on; the first call for any category is for the first item
\* loaded for it; and every category the run has passed (all of them once it
\* has returned 0) was gone through: it is empty or a capture raised in it.
C8_ErrorContained ==
    CurOp = "fetch_all_cards" =>
        /\ \A i \in 1..Len(attempts) : attempts[i].outcome = "error" =>
            LET f == attempts[i].faction
                lf == DictGet(loaded_dict, f)
            IN  /\ \A j \in (i + 1)..Len(attempts) : attempts[j].faction # f
                /\ DictGet(cards_to_fetch, f)
                     = SubSeq(lf, CallsFor(f, i), Len(lf))
        /\ \A i \in 1..Len(attempts) :
            CallsFor(attempts[i].faction, i) = 1 =>
                attempts[i].unit = Head(DictGet(loaded_dict, attempts[i].faction))
        /\ \A p \in 1..Len(cards_to_fetch) :
            (IF pc = "idle" THEN ret = 0 ELSE p < fidx) => Processed(p)
        /\ (op = "fetch_all_cards" /\ pc = "units")
                => IsSuffix(units_queue, DictGet(cards_to_fetch, CurFaction))

C8_Witness ==
    /\ CurOp = "fetch_all_cards"
    /\ \E i, j \in 1..Len(attempts) :
        /\ i < j
        /\ attempts[i].outcome = "error"
        /\ Len(DictGet(loaded_dict, attempts[i].faction)) > CallsFor(attempts[i].faction, i)
        /\ attempts[j].faction # attempts[i].faction
        /\ attempts[j].outcome = "ok"

\* C9: between operations no browser session is open.
C9_SessionClosed == pc = "idle" => driver # "open"

\* C10: in a card run, every category's remaining sequence is a suffix of the
\* sequence loaded for it, shorter by exactly the captures that were followed
\* by the remove; the n-th call for a category is for the n-th item loaded
\* for it; and the local queue is the remaining sequence.
C10_SuffixOfLoaded ==
    CurOp \in CardOps =>
        /\ \A i \in 1..Len(cards_to_fetch) :
            LET f == cards_to_fetch[i].k
                lf == DictGet(loaded_dict, f)
            IN  /\ IsSuffix(cards_to_fetch[i].v, lf)
                /\ Len(cards_to_fetch[i].v) + Removed(f) = Len(lf)
        /\ \A i \in 1..Len(attempts) :
            LET f == attempts[i].faction
                n == CallsFor(f, i)
            IN  /\ n <= Len(DictGet(loaded_dict, f))
                /\ attempts[i].unit = DictGet(loaded_dict, f)[n]
        /\ pc = "units" => units_queue = DictGet(cards_to_fetch, CurFaction)

C10_Witness ==
    /\ CurOp \in CardOps
    /\ \E i, j \in 1..Len(attempts) :
        /\ i < j
        /\ attempts[i].faction = attempts[j].faction
        /\ attempts[i].unit = attempts[j].unit
        /\ attempts[i].outcome = "ok"
        /\ attempts[j].outcome = "ok"

====
